---------------------------- MODULE Spec2Model ----------------------------
(***************************************************************************)
(* Job-application intake service (server.js): the POST /apply pipeline.   *)
(* multer (file filter, disk storage, size limit) -> INSERT INTO           *)
(* applicants -> transporter.sendMail -> response.  Several requests are   *)
(* in flight at once; every await is a point where they interleave.        *)
(* Beside it: the read-only routes (GET /applicants, /applicants/:id,      *)
(* /resume/:id, static /uploads), files removed from outside, and the      *)
(* start-up of the process.                                                *)
(***************************************************************************)
EXTENDS Integers, Sequences, FiniteSets, TLC

\* ----------------------------------------------------------------- bounds
NumReq == 2          \* requests in flight
MaxClock == 1        \* Date.now() / CURRENT_TIMESTAMP ranges over 0..MaxClock
MaxRand == 1         \* Math.round(Math.random() * 1e9) ranges over 0..MaxRand

Req == 1..NumReq

\* ------------------------------------------------------- program constants
\* limits: { fileSize: 10 * 1024 * 1024 }
fileSize == 10 * 1024 * 1024

\* fileFilter's list of accepted MIME types
allowed ==
    { "application/pdf",
      "application/msword",
      "application/vnd.openxmlformats-officedocument.wordprocessingml.document" }

\* ------------------------------------------------------------ input space
MimeTypes == { "application/pdf", "image/png" }
FileSizes == { fileSize, fileSize + 1 }
\* an original file name, as <<base, extension>>
OriginalNames == { <<"cv", ".pdf">> }
\* the six text fields of the form (firstName .. coverLetter), as one value
Fields == { "f1", "f2" }

NoFile == [ attached |-> FALSE, mimetype |-> "", size |-> 0, originalname |-> <<"", "">> ]
Files == [ attached : {TRUE}, mimetype : MimeTypes, size : FileSizes,
           originalname : OriginalNames ]
Submissions == [ body : Fields, file : Files \cup {NoFile} ]
NoSubmission == [ body |-> "", file |-> NoFile ]

\* req.file.filename when no file was stored (resumePath = null)
NoKey == << >>

\* no read request yet
NoQuery ==
    [ kind |-> "none", id |-> 0, pc |-> "done", key |-> NoKey,
      status |-> 0, message |-> "", body |-> << >> ]

\* the process once start-up is through: db opened, transporter verified
Running == [ db |-> "ready", mail |-> "ready", listening |-> TRUE, alive |-> TRUE ]

\* the process right after the module is loaded: db = undefined while open()
\* is pending, transporter.verify() pending, app.listen() called
Starting == [ db |-> "opening", mail |-> "verifying", listening |-> FALSE, alive |-> TRUE ]

\* no response sent yet
NoResp == [ status |-> 0, json |-> FALSE, success |-> FALSE, id |-> 0, message |-> "" ]

VARIABLES
    pc,            \* per request: where its handling stands
    req,           \* per request: the submission it carries
    filename,      \* per request: req.file.filename, the generated key
    insertedId,    \* per request: result.lastID
    resp,          \* per request: the response sent
    applicants,    \* the applicants table, rows in insertion order
    uploads,       \* UPLOAD_DIR: key -> file
    now,           \* the clock
    inserts,       \* per request: outcomes of the INSERT statements it ran (history)
    mails,         \* per request: outcomes of the sendMail calls it made (history)
    opened,        \* per request: whether it created a file in UPLOAD_DIR (history)
    query,         \* the read request being handled, or the last one answered
    boot           \* the process: db handle, mail transporter, listening, alive

vars == << pc, req, filename, insertedId, resp, applicants, uploads, now,
           inserts, mails, opened, query, boot >>

\* ------------------------------------------------------------- pure parts

\* path.extname(file.originalname) || ""
extname(name) == name[2]

\* `${Date.now()}-${Math.round(Math.random() * 1e9)}${ext}`
safeName(ts, rnd, name) == << ts, rnd, extname(name) >>

\* Math.round(Math.random() * 1e9): any value may come up, one drawn before
\* included.  The values matter only through being equal or different, so a
\* draw is either a value drawn before or the least value not drawn yet.
random(drawn) ==
    { v \in 0..MaxRand : v \in drawn \/ \A u \in 0..(v - 1) : u \in drawn }

\* Date.now() / CURRENT_TIMESTAMP, read when the clock last showed t: time has
\* passed or not, and never runs backwards
clock(t) == t..MaxClock

\* a filter that trusts the file name's extension instead of the MIME type
fileFilterByExtension(file) == extname(file.originalname) \in { ".pdf", ".doc", ".docx" }

\* fileFilter: allowed.includes(file.mimetype)
fileFilter(file) == file.mimetype \in allowed

\* busboy's limit: the stream is cut once more than fileSize bytes arrived
overLimit(file) == file.size > fileSize

\* id INTEGER PRIMARY KEY AUTOINCREMENT: one more than the largest id ever used
RECURSIVE MaxId(_)
MaxId(rows) ==
    IF rows = << >> THEN 0
    ELSE LET m == MaxId(Tail(rows)) IN IF Head(rows).id > m THEN Head(rows).id ELSE m

nextId(rows) == MaxId(rows) + 1

\* the row INSERT INTO applicants (...) VALUES (?, ?, ?, ?, ?, ?, ?) adds
newRow(rows, body, resumePath, ts, r) ==
    [ id |-> nextId(rows), body |-> body, resumePath |-> resumePath,
      createdAt |-> ts, by |-> r ]

\* result.lastID of the INSERT that made `rows`
lastID(rows) == rows[Len(rows)].id

\* fs.createWriteStream(finalPath): creates or truncates the file
\* (another request still writing to the same path leaves a mix of both)
openFile(dir, k, r, busy) ==
    [ x \in DOMAIN dir \cup {k} |->
        IF x = k THEN [ owner |-> r, state |-> IF busy THEN "mixed" ELSE "partial" ]
        ELSE dir[x] ]

\* the write stream's finish: the whole upload is on disk
finishFile(dir, k, r) ==
    IF k \in DOMAIN dir /\ dir[k].owner = r /\ dir[k].state = "partial"
    THEN [ dir EXCEPT ![k].state = "complete" ]
    ELSE dir

\* a removal that leaves the file where it is
removeFileKeeps(dir, k) == dir

\* diskStorage._removeFile: fs.unlink(file.path)
removeFile(dir, k) == [ x \in DOMAIN dir \ {k} |-> dir[x] ]

\* a success response that reads the table's latest id when it answers
successResponseLatest(id) ==
    [ status |-> 200, json |-> TRUE, success |-> TRUE, id |-> lastID(applicants),
      message |-> "Application submitted & confirmation email sent!" ]

\* res.json({ success: true, message: ..., id: insertedId })
successResponse(id) ==
    [ status |-> 200, json |-> TRUE, success |-> TRUE, id |-> id,
      message |-> "Application submitted & confirmation email sent!" ]

\* res.status(500).json({ success: false, message: "Failed to save application" })
failureResponse ==
    [ status |-> 500, json |-> TRUE, success |-> FALSE, id |-> 0,
      message |-> "Failed to save application" ]

\* no error middleware is registered: express's default handler answers an
\* error passed to next(err) that carries no status with 500 and an HTML page
errorResponse(msg) ==
    [ status |-> 500, json |-> FALSE, success |-> FALSE, id |-> 0, message |-> msg ]

\* `${req.protocol}://${req.get("host")}` of the read requests
Hosts == { "http://hr.example" }

\* resumeUrl: null
NoUrl == << >>

\* a resume URL built on the download route instead of the static one
resumeUrlByRoute(host, resumePath) ==
    IF resumePath # NoKey THEN << host, "/resume/", resumePath >> ELSE NoUrl

\* r.resumePath ? `${host}/uploads/${r.resumePath}` : null
resumeUrl(host, resumePath) ==
    IF resumePath # NoKey THEN << host, "/uploads/", resumePath >> ELSE NoUrl

\* { ...r, resumeUrl: ... }
withResumeUrl(row, host) ==
    [ id |-> row.id, body |-> row.body, resumePath |-> row.resumePath,
      createdAt |-> row.createdAt, by |-> row.by,
      resumeUrl |-> resumeUrl(host, row.resumePath) ]

\* rows with `row` put in after every row at least as recent as it
RECURSIVE putByCreatedAt(_, _)
putByCreatedAt(rows, row) ==
    IF rows = << >> THEN << row >>
    ELSE IF Head(rows).createdAt >= row.createdAt
         THEN << Head(rows) >> \o putByCreatedAt(Tail(rows), row)
         ELSE << row >> \o rows

\* a listing in the order the rows were inserted
selectAllUnordered(rows) == rows

\* SELECT * FROM applicants ORDER BY createdAt DESC (rows of one timestamp
\* come in the order of their ids)
RECURSIVE selectAll(_)
selectAll(rows) ==
    IF rows = << >> THEN << >>
    ELSE putByCreatedAt(selectAll(SelectSeq(rows, LAMBDA x : x.id # rows[Len(rows)].id)),
                        rows[Len(rows)])

\* SELECT * FROM applicants WHERE id = ?
selectById(rows, id) == SelectSeq(rows, LAMBDA x : x.id = id)

\* rows.map(...) over the listing
RECURSIVE mapRows(_, _)
mapRows(rows, host) ==
    IF rows = << >> THEN << >>
    ELSE << withResumeUrl(Head(rows), host) >> \o mapRows(Tail(rows), host)

\* a response of a read route
answer(kind, id, status, message, body) ==
    [ kind |-> kind, id |-> id, pc |-> "done", key |-> NoKey,
      status |-> status, message |-> message, body |-> body ]

\* the catch blocks of the read routes
catchMessage(kind) ==
    CASE kind = "list" -> "Failed to fetch applicants"
      [] kind = "get" -> "Failed to fetch applicant"
      [] OTHER -> "Failed to download resume"

\* a file that vanished answered as a server error
sendErrorAsServerError(kind, id) == answer(kind, id, 500, "Internal Server Error", << >>)

\* res.download / express.static on a file that is not there: send reports
\* ENOENT as an error of status 404, which express's default handler answers
sendError(kind, id) == answer(kind, id, 404, "Not Found", << >>)

\* ------------------------------------------------------------------ state

Init ==
    /\ pc = [ r \in Req |-> "idle" ]
    /\ req = [ r \in Req |-> NoSubmission ]
    /\ filename = [ r \in Req |-> NoKey ]
    /\ insertedId = [ r \in Req |-> 0 ]
    /\ resp = [ r \in Req |-> NoResp ]
    /\ applicants = << >>
    /\ uploads = << >>
    /\ now = 0
    /\ inserts = [ r \in Req |-> << >> ]
    /\ mails = [ r \in Req |-> << >> ]
    /\ opened = [ r \in Req |-> FALSE ]
    /\ query = NoQuery
    /\ boot = Running

\* the process accepts connections: app.listen() has bound the port and the
\* process has not exited
Serving == boot.alive /\ boot.listening

\* a POST /apply may arrive as request r (requests are numbered in their
\* order of arrival)
Arrives(r) ==
    /\ pc[r] = "idle"
    /\ Serving
    /\ \A q \in Req : q < r => pc[q] # "idle"

\* upload.single("resume") on a form without a file: on to the handler
ApplyNoFile(r) ==
    /\ Arrives(r)
    /\ \E s \in Submissions :
         /\ ~ s.file.attached
         /\ req' = [ req EXCEPT ![r] = s ]
    /\ pc' = [ pc EXCEPT ![r] = "handler" ]
    /\ UNCHANGED << filename, insertedId, resp, applicants, uploads, now,
                    inserts, mails, opened >>
    /\ UNCHANGED << query, boot >>

\* fileFilter refuses the file: cb(new Error(...)), nothing is stored, and the
\* error reaches express's default error handler
ApplyRejected(r) ==
    /\ Arrives(r)
    /\ \E s \in Submissions :
         /\ s.file.attached /\ ~ fileFilter(s.file)
         /\ req' = [ req EXCEPT ![r] = s ]
    /\ resp' = [ resp EXCEPT ![r] = errorResponse("Only PDF / DOC / DOCX files are allowed") ]
    /\ pc' = [ pc EXCEPT ![r] = "done" ]
    /\ UNCHANGED << filename, insertedId, applicants, uploads, now,
                    inserts, mails, opened >>
    /\ UNCHANGED << query, boot >>

\* fileFilter accepts the file: storage.filename draws the key and the disk
\* storage opens the file under it
ApplyAccepted(r) ==
    /\ Arrives(r)
    /\ \E s \in Submissions, ts \in clock(now),
          rnd \in random({ filename[q][2] : q \in { p \in Req : opened[p] } }) :
         /\ s.file.attached /\ fileFilter(s.file)
         /\ req' = [ req EXCEPT ![r] = s ]
         /\ now' = ts
         /\ LET k == safeName(ts, rnd, s.file.originalname)
                busy == \E q \in Req : q # r /\ pc[q] = "writing" /\ filename[q] = k
            IN /\ filename' = [ filename EXCEPT ![r] = k ]
               /\ uploads' = openFile(uploads, k, r, busy)
    /\ opened' = [ opened EXCEPT ![r] = TRUE ]
    /\ pc' = [ pc EXCEPT ![r] = "writing" ]
    /\ UNCHANGED << insertedId, resp, applicants, inserts, mails >>
    /\ UNCHANGED << query, boot >>

\* the upload fits the limit and is written out: on to the handler
FileStored(r) ==
    /\ pc[r] = "writing"
    /\ boot.alive
    /\ ~ overLimit(req[r].file)
    /\ uploads' = finishFile(uploads, filename[r], r)
    /\ pc' = [ pc EXCEPT ![r] = "handler" ]
    /\ UNCHANGED << req, filename, insertedId, resp, applicants, now,
                    inserts, mails, opened >>
    /\ UNCHANGED << query, boot >>

\* the upload exceeds the limit: the stream is cut (LIMIT_FILE_SIZE); once the
\* cut file is written multer removes what it stored and passes the error on,
\* and express's default error handler answers
FileTooLarge(r) ==
    /\ pc[r] = "writing"
    /\ boot.alive
    /\ overLimit(req[r].file)
    /\ uploads' = removeFile(uploads, filename[r])
    /\ resp' = [ resp EXCEPT ![r] = errorResponse("File too large") ]
    /\ pc' = [ pc EXCEPT ![r] = "done" ]
    /\ UNCHANGED << req, filename, insertedId, applicants, now, inserts, mails, opened >>
    /\ UNCHANGED << query, boot >>

\* await db.run(INSERT ...) resolves: the row is in the table
InsertOk(r) ==
    /\ pc[r] = "handler"
    /\ boot.alive
    /\ boot.db = "ready"
    /\ \E ts \in clock(now) :
         LET resumePath == IF req[r].file.attached THEN filename[r] ELSE NoKey
             rows == Append(applicants, newRow(applicants, req[r].body, resumePath, ts, r))
         IN /\ now' = ts
            /\ applicants' = rows
            /\ insertedId' = [ insertedId EXCEPT ![r] = lastID(rows) ]
    /\ inserts' = [ inserts EXCEPT ![r] = Append(@, "ok") ]
    /\ pc' = [ pc EXCEPT ![r] = "mail" ]
    /\ UNCHANGED << req, filename, resp, uploads, mails, opened >>
    /\ UNCHANGED << query, boot >>

\* a catch block that also deletes the request's upload
InsertFailedCleansUp(r) ==
    /\ pc[r] = "handler"
    /\ boot.alive
    /\ inserts' = [ inserts EXCEPT ![r] = Append(@, "failed") ]
    /\ resp' = [ resp EXCEPT ![r] = failureResponse ]
    /\ uploads' = removeFile(uploads, filename[r])
    /\ pc' = [ pc EXCEPT ![r] = "done" ]
    /\ UNCHANGED << req, filename, insertedId, applicants, now, mails, opened >>
    /\ UNCHANGED << query, boot >>

\* await db.run(INSERT ...) rejects, or db is still undefined and db.run
\* throws: the catch block answers
InsertFailed(r) ==
    /\ pc[r] = "handler"
    /\ boot.alive
    /\ inserts' = [ inserts EXCEPT ![r] = Append(@, "failed") ]
    /\ resp' = [ resp EXCEPT ![r] = failureResponse ]
    /\ pc' = [ pc EXCEPT ![r] = "done" ]
    /\ UNCHANGED << req, filename, insertedId, applicants, uploads, now, mails, opened >>
    /\ UNCHANGED << query, boot >>

\* await transporter.sendMail(mailOptions) resolves: the success response
MailSent(r) ==
    /\ pc[r] = "mail"
    /\ boot.alive
    /\ mails' = [ mails EXCEPT ![r] = Append(@, "sent") ]
    /\ resp' = [ resp EXCEPT ![r] = successResponse(insertedId[r]) ]
    /\ pc' = [ pc EXCEPT ![r] = "done" ]
    /\ UNCHANGED << req, filename, insertedId, applicants, uploads, now, inserts, opened >>
    /\ UNCHANGED << query, boot >>

\* a catch block that takes the request's row back out of the table
MailFailedRollsBack(r) ==
    /\ pc[r] = "mail"
    /\ boot.alive
    /\ mails' = [ mails EXCEPT ![r] = Append(@, "failed") ]
    /\ resp' = [ resp EXCEPT ![r] = failureResponse ]
    /\ applicants' = SelectSeq(applicants, LAMBDA row : row.by # r)
    /\ pc' = [ pc EXCEPT ![r] = "done" ]
    /\ UNCHANGED << req, filename, insertedId, uploads, now, inserts, opened >>
    /\ UNCHANGED << query, boot >>

\* a catch block that answers success although the delivery failed
MailFailedStillSucceeds(r) ==
    /\ pc[r] = "mail"
    /\ boot.alive
    /\ mails' = [ mails EXCEPT ![r] = Append(@, "failed") ]
    /\ resp' = [ resp EXCEPT ![r] = successResponse(insertedId[r]) ]
    /\ pc' = [ pc EXCEPT ![r] = "done" ]
    /\ UNCHANGED << req, filename, insertedId, applicants, uploads, now, inserts, opened >>
    /\ UNCHANGED << query, boot >>

\* await transporter.sendMail(mailOptions) rejects: the catch block answers
MailFailed(r) ==
    /\ pc[r] = "mail"
    /\ boot.alive
    /\ mails' = [ mails EXCEPT ![r] = Append(@, "failed") ]
    /\ resp' = [ resp EXCEPT ![r] = failureResponse ]
    /\ pc' = [ pc EXCEPT ![r] = "done" ]
    /\ UNCHANGED << req, filename, insertedId, applicants, uploads, now, inserts, opened >>
    /\ UNCHANGED << query, boot >>

\* a step of some POST /apply
Apply ==
    \/ \E r \in Req : ApplyNoFile(r)
    \/ \E r \in Req : ApplyRejected(r)
    \/ \E r \in Req : ApplyAccepted(r)
    \/ \E r \in Req : FileStored(r)
    \/ \E r \in Req : FileTooLarge(r)
    \/ \E r \in Req : InsertOk(r)
    \/ \E r \in Req : InsertFailed(r)
    \/ \E r \in Req : MailSent(r)
    \/ \E r \in Req : MailFailed(r)

\* the submission pipeline of a process that started up
Next == Apply

Spec == Init /\ [][Next]_vars

\* the ids a read request may ask for: those of the table and one beyond
Ids == 1..(Len(applicants) + 1)

\* a read request has been answered and its response is on its way out
Answering == query.kind # "none" /\ query.pc = "done"

\* a read request may arrive: the process serves, and the model follows one
\* read request at a time
Reads ==
    /\ Serving
    /\ query = NoQuery

ReadOnly ==
    UNCHANGED << pc, req, filename, insertedId, resp, applicants, uploads, now,
                 inserts, mails, opened, boot >>

\* GET /applicants: db.all resolves, the rows are mapped and sent
ListApplicants ==
    /\ Reads
    /\ boot.db = "ready"
    /\ \E host \in Hosts :
         query' = answer("list", 0, 200, "", mapRows(selectAll(applicants), host))
    /\ ReadOnly

\* a GET /applicants/:id that stamps the stored row it read
GetApplicantTouches(id) ==
    /\ Reads
    /\ boot.db = "ready"
    /\ \E host \in Hosts :
         /\ query' = answer("get", id, 200, "", mapRows(selectById(applicants, id), host))
         /\ applicants' = [ i \in 1..Len(applicants) |->
                IF applicants[i].id = id
                THEN [ applicants[i] EXCEPT !.createdAt = now + 1 ]
                ELSE applicants[i] ]
    /\ UNCHANGED << pc, req, filename, insertedId, resp, uploads, now,
                    inserts, mails, opened, boot >>

\* GET /applicants/:id: db.get resolves; 404 without a row, else the row with
\* its resumeUrl
GetApplicant(id) ==
    /\ Reads
    /\ boot.db = "ready"
    /\ \E host \in Hosts :
         LET found == selectById(applicants, id)
         IN query' = IF found = << >>
                     THEN answer("get", id, 404, "Not found", << >>)
                     ELSE answer("get", id, 200, "", mapRows(found, host))
    /\ ReadOnly

\* GET /resume/:id: db.get resolves; 404 without a row or without a resumePath,
\* 404 when fs.existsSync finds no file, else res.download starts
ResumeLookup(id) ==
    /\ Reads
    /\ boot.db = "ready"
    /\ LET found == selectById(applicants, id)
       IN query' =
            IF found = << >> \/ found[1].resumePath = NoKey
            THEN answer("resume", id, 404, "Resume not found", << >>)
            ELSE IF found[1].resumePath \notin DOMAIN uploads
            THEN answer("resume", id, 404, "File missing", << >>)
            ELSE [ answer("resume", id, 0, "", << >>)
                     EXCEPT !.pc = "sending", !.key = found[1].resumePath ]
    /\ ReadOnly

\* res.download opens the file: it streams what is there, or the file is gone
ResumeSend ==
    /\ boot.alive
    /\ query.kind = "resume"
    /\ query.pc = "sending"
    /\ query' = IF query.key \in DOMAIN uploads
                THEN [ query EXCEPT !.pc = "done", !.status = 200,
                                    !.body = << uploads[query.key] >> ]
                ELSE sendError("resume", query.id)
    /\ ReadOnly

\* db.all / db.get rejects, or db is still undefined: the route's catch block
QueryFailed(kind) ==
    /\ Reads
    /\ \E id \in (IF kind = "list" THEN {0} ELSE Ids) :
         query' = answer(kind, id, 500, catchMessage(kind), << >>)
    /\ ReadOnly

\* GET /uploads/<key> (express.static): the file as it is on disk, or 404
StaticGet(k) ==
    /\ Reads
    /\ query' = IF k \in DOMAIN uploads
                THEN [ answer("static", 0, 200, "", << uploads[k] >>) EXCEPT !.key = k ]
                ELSE [ sendError("static", 0) EXCEPT !.key = k ]
    /\ ReadOnly

\* the response of a read request has gone out: nothing of the request remains
Delivered ==
    /\ Answering
    /\ query' = NoQuery
    /\ ReadOnly

\* a file of the upload directory is removed from outside the service
ExternalDelete(k) ==
    /\ ~ Answering
    /\ k \in DOMAIN uploads
    /\ uploads' = removeFile(uploads, k)
    /\ UNCHANGED << pc, req, filename, insertedId, resp, applicants, now,
                    inserts, mails, opened, query, boot >>

\* the keys generated so far
Keys == { filename[r] : r \in { p \in Req : opened[p] } }

\* a step of a POST /apply that leaves at most one submission under way (a
\* response of a read request goes out before anything else happens, and the
\* submissions all carry the same fields)
ApplyInTurn ==
    /\ ~ Answering
    /\ Apply
    /\ \A r \in Req : req'[r].body # "f2"
    /\ \A r, q \in Req :
         r # q => (pc'[r] \in { "idle", "done" } \/ pc'[q] \in { "idle", "done" })

\* the read routes, and files removed from outside, beside submissions that
\* are taken one at a time
NextQuery ==
    \/ ApplyInTurn
    \/ ListApplicants
    \/ \E id \in Ids : GetApplicant(id)
    \/ \E id \in Ids : ResumeLookup(id)
    \/ ResumeSend
    \/ \E kind \in { "list", "get", "resume" } : QueryFailed(kind)
    \/ \E k \in Keys : StaticGet(k)
    \/ Delivered
    \/ \E k \in Keys : ExternalDelete(k)

SpecQuery == Init /\ [][NextQuery]_vars

\* the module has just been loaded: open() and transporter.verify() are under
\* way, app.listen() has been called and has not bound the port yet
InitStart ==
    /\ pc = [ r \in Req |-> "idle" ]
    /\ req = [ r \in Req |-> NoSubmission ]
    /\ filename = [ r \in Req |-> NoKey ]
    /\ insertedId = [ r \in Req |-> 0 ]
    /\ resp = [ r \in Req |-> NoResp ]
    /\ applicants = << >>
    /\ uploads = << >>
    /\ now = 0
    /\ inserts = [ r \in Req |-> << >> ]
    /\ mails = [ r \in Req |-> << >> ]
    /\ opened = [ r \in Req |-> FALSE ]
    /\ query = NoQuery
    /\ boot = Starting

Booting ==
    UNCHANGED << pc, req, filename, insertedId, resp, applicants, uploads, now,
                 inserts, mails, opened, query >>

\* app.listen(PORT, ...) binds the port: it waits for neither the database nor
\* the transporter
Listen ==
    /\ boot.alive
    /\ ~ boot.listening
    /\ boot' = [ boot EXCEPT !.listening = TRUE ]
    /\ Booting

\* await open(...) and CREATE TABLE IF NOT EXISTS resolve: db is set
DbOpened ==
    /\ boot.alive
    /\ boot.db = "opening"
    /\ boot' = [ boot EXCEPT !.db = "ready" ]
    /\ Booting

\* open(...) or the CREATE TABLE rejects: console.error and process.exit(1)
DbOpenFailed ==
    /\ boot.alive
    /\ boot.db = "opening"
    /\ boot' = [ boot EXCEPT !.db = "failed", !.alive = FALSE ]
    /\ Booting

\* transporter.verify() resolves: "Mail transporter is ready"
MailVerified ==
    /\ boot.alive
    /\ boot.mail = "verifying"
    /\ boot' = [ boot EXCEPT !.mail = "ready" ]
    /\ Booting

\* transporter.verify() rejects: console.warn, and the process goes on
MailVerifyFailed ==
    /\ boot.alive
    /\ boot.mail = "verifying"
    /\ boot' = [ boot EXCEPT !.mail = "failed" ]
    /\ Booting

\* start-up beside the submissions the listening process takes
NextStart ==
    \/ Listen
    \/ DbOpened
    \/ DbOpenFailed
    \/ MailVerified
    \/ MailVerifyFailed
    \/ Apply

SpecStart == InitStart /\ [][NextStart]_vars

\* ----------------------------------------------------------------- claims

\* the rows of the table that request r inserted
RowsBy(r) == { i \in 1..Len(applicants) : applicants[i].by = r }

\* the files of UPLOAD_DIR that request r was the last to open
FilesBy(r) == { k \in DOMAIN uploads : uploads[k].owner = r }

Answered(r) == pc[r] = "done"

BadType(r) == req[r].file.attached /\ req[r].file.mimetype \notin allowed
TooLarge(r) == req[r].file.attached /\ req[r].file.size > fileSize

\* C1 (as claimed): whenever the insert of a POST /apply succeeded and its one
\* mail delivery attempt failed, the request is answered with success:true and
\* the id of the inserted row, and that row is in the table.
C1_MailFailureStillSuccess ==
    \A r \in Req :
        (Answered(r) /\ inserts[r] = << "ok" >> /\ mails[r] = << "failed" >>)
        => /\ resp[r].success
           /\ resp[r].id = insertedId[r]
           /\ \E i \in RowsBy(r) : applicants[i].id = resp[r].id

\* C2: a POST /apply whose file has a MIME type outside the three allowed ones
\* never inserts a row, never runs an INSERT at all, and never creates a file
\* in the upload directory.
C2_BadTypeStoresNothing ==
    \A r \in Req :
        BadType(r)
        => /\ RowsBy(r) = {}
           /\ inserts[r] = << >>
           /\ ~ opened[r]
           /\ FilesBy(r) = {}

\* C2 witness: a request with a disallowed MIME type has been answered.
C2_Witness ==
    \E r \in Req : BadType(r) /\ Answered(r) /\ resp[r].status # 0

\* C3: once a POST /apply whose file exceeds 10 MiB has been answered, no row
\* was inserted for it and no file it wrote remains in the upload directory.
C3_TooLargeLeavesNothing ==
    \A r \in Req :
        (TooLarge(r) /\ Answered(r))
        => /\ RowsBy(r) = {}
           /\ inserts[r] = << >>
           /\ FilesBy(r) = {}

\* C3 witness: an oversize upload of an allowed type was written to the upload
\* directory, and the request has been answered.
C3_Witness ==
    \E r \in Req : TooLarge(r) /\ ~ BadType(r) /\ opened[r] /\ Answered(r)

\* C4 (as claimed): when the file of a POST /apply is rejected for its MIME
\* type or its size, the response is a client error (4xx), never a 5xx.
C4_RejectionIsClientError ==
    \A r \in Req :
        (Answered(r) /\ (BadType(r) \/ TooLarge(r)))
        => resp[r].status \in 400..499

\* C5 (as claimed): at the moment a row with a resume reference is inserted,
\* the artifact under that key exists completely in the upload directory.
C5_ArtifactCompleteAtInsert ==
    [][ \A r \in Req :
          (inserts[r] = << >> /\ inserts'[r] = << "ok" >> /\ req[r].file.attached)
          => /\ filename[r] \in DOMAIN uploads
             /\ uploads[filename[r]].state = "complete" ]_vars

\* C6: when the INSERT of a POST /apply fails, the request is answered with a
\* 5xx and success:false, no row exists for it, no mail is ever sent for it,
\* and the failing step leaves the upload directory as it was (no cleanup).
C6_InsertFailureAborts ==
    /\ [](\A r \in Req :
            inserts[r] = << "failed" >>
            => /\ Answered(r)
               /\ resp[r].status \in 500..599
               /\ resp[r].json /\ ~ resp[r].success
               /\ RowsBy(r) = {}
               /\ mails[r] = << >>)
    /\ [][ \A r \in Req :
             (inserts[r] = << >> /\ inserts'[r] = << "failed" >>)
             => uploads' = uploads ]_vars

\* C6 witness: the INSERT of a request with a stored upload failed, and the
\* upload is still in the directory.
C6_Witness ==
    \E r \in Req :
        /\ inserts[r] = << "failed" >>
        /\ req[r].file.attached
        /\ filename[r] \in FilesBy(r)
        /\ uploads[filename[r]].state = "complete"

\* C7 (as claimed): concurrent POST /apply requests with files get pairwise
\* distinct row ids and pairwise distinct artifact keys, and no row references
\* an artifact written by another request.
C7_DistinctIdsAndKeys ==
    /\ \A r, q \in Req :
         (r # q /\ opened[r] /\ opened[q]) => filename[r] # filename[q]
    /\ \A i, j \in 1..Len(applicants) :
         i # j => applicants[i].id # applicants[j].id
    /\ \A i \in 1..Len(applicants) :
         (applicants[i].resumePath # NoKey /\ applicants[i].resumePath \in DOMAIN uploads)
         => uploads[applicants[i].resumePath].owner = applicants[i].by

\* C8 (as claimed): a valid POST /apply without a resume (its INSERT succeeds)
\* creates exactly one row, with a null resume reference, and its response
\* returns that row's id, which no other row has.
C8_NoResumeOneRowFreshId ==
    \A r \in Req :
        (Answered(r) /\ ~ req[r].file.attached /\ inserts[r] = << "ok" >>)
        => /\ Cardinality(RowsBy(r)) = 1
           /\ \A i \in RowsBy(r) :
                /\ applicants[i].resumePath = NoKey
                /\ resp[r].id = applicants[i].id
                /\ \A j \in 1..Len(applicants) :
                     j # i => applicants[j].id # applicants[i].id

\* C9: whenever a POST /apply answers success, the id in the response is the id
\* of exactly one row, and that row was inserted by the same request and holds
\* its fields and its artifact key.
C9_ResponseIdIsOwnRow ==
    \A r \in Req :
        resp[r].success
        => /\ Cardinality({ i \in 1..Len(applicants) : applicants[i].id = resp[r].id }) = 1
           /\ \A i \in 1..Len(applicants) :
                applicants[i].id = resp[r].id
                => /\ applicants[i].by = r
                   /\ applicants[i].body = req[r].body
                   /\ applicants[i].resumePath =
                        (IF req[r].file.attached THEN filename[r] ELSE NoKey)

\* C9 witness: two requests were answered with success, and the one that
\* arrived later was inserted first.
C9_Witness ==
    \E r, q \in Req :
        /\ r < q
        /\ resp[r].success /\ resp[q].success
        /\ resp[q].id < resp[r].id

\* C10: a request sends mail at most once and only after its INSERT succeeded;
\* a failed delivery changes neither the table nor the upload directory, and
\* no step ever removes or alters a row of the table.
C10_MailOnceAfterInsert ==
    /\ [](\A r \in Req :
            /\ Len(mails[r]) <= 1
            /\ mails[r] # << >> => (inserts[r] = << "ok" >> /\ RowsBy(r) # {}))
    /\ [][ /\ \A r \in Req :
                (mails[r] = << >> /\ mails'[r] = << "failed" >>)
                => (applicants' = applicants /\ uploads' = uploads)
           /\ Len(applicants') >= Len(applicants)
           /\ \A i \in 1..Len(applicants) : applicants'[i] = applicants[i] ]_vars

\* C10 witness: a delivery failed and the request's row is in the table.
C10_Witness ==
    \E r \in Req : mails[r] = << "failed" >> /\ RowsBy(r) # {}

\* the record a GET /resume/:id asks for has a resume reference and the file
\* it names is in the upload directory
ResumePresent(id) ==
    LET found == selectById(applicants, id)
    IN /\ found # << >>
       /\ found[1].resumePath # NoKey
       /\ found[1].resumePath \in DOMAIN uploads

\* a GET /resume/:id whose lookup resolved has been answered
ResumeAnswered ==
    /\ Answering
    /\ query.kind = "resume"
    /\ query.message # catchMessage("resume")

\* C11: a GET /resume/:id whose lookup resolved answers 404, never a 5xx, when
\* the record, its resume reference or the file is missing as the request is
\* answered (a file removed from outside while the request is handled
\* included); it answers 200 with the file under the record's key exactly when
\* all three are present.
C11_ResumeMissingIsNotFound ==
    ResumeAnswered
    => /\ query.status \notin 500..599
       /\ IF ResumePresent(query.id)
          THEN /\ query.status = 200
               /\ query.body = << uploads[selectById(applicants, query.id)[1].resumePath] >>
          ELSE query.status = 404

\* C11 witness: the file was there when fs.existsSync looked and was removed
\* from outside before res.download opened it; the request is answered.
C11_Witness ==
    /\ ResumeAnswered
    /\ query.message = "Not Found"
    /\ selectById(applicants, query.id) # << >>
    /\ ~ ResumePresent(query.id)

\* C12 (as claimed): for every record created with a resume, GET /applicants/:id
\* answers that record with a non-null resumeUrl, and GET /resume/:id, while
\* the file is in the upload directory, answers exactly the content that the
\* record's own submission uploaded, whatever other submissions came after.
C12_RoundTrip ==
    /\ (Answering /\ query.kind = "get" /\ query.message # catchMessage("get"))
       => \A i \in 1..Len(applicants) :
            (applicants[i].id = query.id /\ applicants[i].resumePath # NoKey)
            => /\ query.status = 200
               /\ query.body[1].id = query.id
               /\ query.body[1].body = applicants[i].body
               /\ query.body[1].resumeUrl # NoUrl
    /\ (ResumeAnswered /\ ResumePresent(query.id))
       => /\ query.status = 200
          /\ query.body[1].owner = selectById(applicants, query.id)[1].by
          /\ query.body[1].state = "complete"

\* C13 (as claimed): a POST /apply is taken up only by a process whose database
\* and mail transport have both finished initializing successfully, and a
\* failed initialization of either ends the process.
C13_NoServingBeforeInit ==
    /\ [][ \A r \in Req :
             (pc[r] = "idle" /\ pc'[r] # "idle")
             => (boot.db = "ready" /\ boot.mail = "ready") ]_vars
    /\ []((boot.db = "failed" \/ boot.mail = "failed") => ~ boot.alive)

\* C14: the table is append-only: no step removes a row or changes a field of
\* a row (createdAt included), and a step of GET /applicants, GET
\* /applicants/:id or GET /resume/:id leaves both the table and the upload
\* directory as they were.
C14_AppendOnlyReadOnlyGets ==
    [][ /\ Len(applicants') >= Len(applicants)
        /\ \A i \in 1..Len(applicants) :
             /\ applicants'[i].id = applicants[i].id
             /\ applicants'[i].body = applicants[i].body
             /\ applicants'[i].resumePath = applicants[i].resumePath
             /\ applicants'[i].createdAt = applicants[i].createdAt
        /\ (query' # query /\ query'.kind \in { "list", "get", "resume" })
           => (applicants' = applicants /\ uploads' = uploads) ]_vars

\* C14 witness: a GET /applicants/:id has answered a record that has a resume
\* reference, with two rows in the table and a file in the upload directory.
C14_Witness ==
    /\ Answering
    /\ query.kind = "get"
    /\ query.status = 200
    /\ query.body[1].resumePath # NoKey
    /\ Len(applicants) >= 2
    /\ DOMAIN uploads # {}

\* C15: a GET /applicants that answers 200 returns every row of the table
\* exactly once, in non-increasing order of createdAt (most recent first),
\* rows inserted with one timestamp included.
C15_ListingNewestFirst ==
    (Answering /\ query.kind = "list" /\ query.status = 200)
    => /\ Len(query.body) = Len(applicants)
       /\ \A i \in 1..Len(applicants) :
            Cardinality({ j \in 1..Len(query.body) :
                            query.body[j].id = applicants[i].id }) = 1
       /\ \A i, j \in 1..Len(query.body) :
            i < j => query.body[i].createdAt >= query.body[j].createdAt

\* C15 witness: a listing of two rows inserted at different times has been
\* answered, the row inserted later first.
C15_Witness ==
    /\ Answering
    /\ query.kind = "list"
    /\ query.status = 200
    /\ Len(query.body) = 2
    /\ query.body[1].createdAt > query.body[2].createdAt
    /\ query.body[1].id > query.body[2].id

\* C16 (as claimed): two POST /apply with identical fields and identical file
\* whose uploads were accepted and whose INSERTs succeeded create two rows of
\* distinct ids and, when a file is attached, two distinct stored artifacts,
\* each under its own key.
C16_ResubmissionNotDeduplicated ==
    \A r, q \in Req :
        (r # q /\ req[r] = req[q] /\ Answered(r) /\ Answered(q)
              /\ inserts[r] = << "ok" >> /\ inserts[q] = << "ok" >>)
        => /\ Cardinality(RowsBy(r)) = 1
           /\ Cardinality(RowsBy(q)) = 1
           /\ \A i \in RowsBy(r), j \in RowsBy(q) : applicants[i].id # applicants[j].id
           /\ req[r].file.attached
              => /\ filename[r] # filename[q]
                 /\ filename[r] \in FilesBy(r)
                 /\ filename[q] \in FilesBy(q)

\* C17 (as claimed): whenever a reader (GET /uploads/<key> or GET /resume/:id)
\* is answered with a file under a generated key, the file is the complete
\* artifact: a partly written file is never observed.
C17_NoPartialArtifactObserved ==
    (Answering /\ query.kind \in { "static", "resume" } /\ query.status = 200)
    => query.body[1].state = "complete"

\* C18: every record answered by GET /applicants and GET /applicants/:id is a
\* row of the table with that row's resume reference, and its resumeUrl is
\* null exactly when the reference is null and is otherwise the serving host
\* followed by /uploads/ and the reference.
C18_ResumeUrlFromKey ==
    (Answering /\ query.kind \in { "list", "get" } /\ query.status = 200)
    => \A j \in 1..Len(query.body) :
         /\ \E i \in 1..Len(applicants) :
              /\ applicants[i].id = query.body[j].id
              /\ applicants[i].resumePath = query.body[j].resumePath
         /\ query.body[j].resumeUrl = NoUrl <=> query.body[j].resumePath = NoKey
         /\ query.body[j].resumePath # NoKey
            => \E host \in Hosts :
                 query.body[j].resumeUrl = << host, "/uploads/", query.body[j].resumePath >>

\* C18 witness: a listing has been answered that holds a record without a
\* resume and a record with one.
C18_Witness ==
    /\ Answering
    /\ query.kind = "list"
    /\ query.status = 200
    /\ \E i, j \in 1..Len(query.body) :
         /\ query.body[i].resumeUrl = NoUrl
         /\ query.body[j].resumeUrl # NoUrl

\* C19 (as claimed): a POST /apply answered with success:false and "Failed to
\* save application" has no row in the table; equivalently, every row belongs
\* to a request that is answered with success once it is answered.
C19_FailureMeansNothingSaved ==
    /\ \A r \in Req : resp[r] = failureResponse => RowsBy(r) = {}
    /\ \A i \in 1..Len(applicants) :
         Answered(applicants[i].by) => resp[applicants[i].by].success

\* C20: a POST /apply answers success only when its INSERT and then its mail
\* delivery have both succeeded: the delivery is attempted only with the
\* INSERT done, and the success response comes with or after the delivery.
C20_SuccessAfterInsertThenMail ==
    /\ [](\A r \in Req :
            resp[r].success
            => /\ resp[r].message = "Application submitted & confirmation email sent!"
               /\ inserts[r] = << "ok" >>
               /\ mails[r] = << "sent" >>)
    /\ [][ \A r \in Req :
             /\ mails'[r] # mails[r]
                => (inserts[r] = << "ok" >> /\ ~ resp[r].success)
             /\ (resp'[r].success /\ ~ resp[r].success)
                => (inserts[r] = << "ok" >> /\ mails'[r] = << "sent" >>) ]_vars

\* C20 witness: a request with a resume has been answered with success.
C20_Witness ==
    \E r \in Req :
        /\ resp[r].success
        /\ req[r].file.attached
        /\ mails[r] = << "sent" >>

=============================================================================
